---- MODULE Spec2Model ----
(***************************************************************************)
(* hyper-trace-id: the SetTraceIdLayer / TraceIdMiddleware interceptor     *)
(* (src/src/layer.rs), the TraceId<T> value and the MakeTraceId strategy   *)
(* (src/src/lib.rs) and the axum extractor (src/src/extract.rs).           *)
(*                                                                         *)
(* Strings that the code inspects byte by byte (header names, header       *)
(* values, rendered ids) are sequences of byte codes.  Option<X> is a      *)
(* sequence of length at most one, Result<X, E> a record [ok, val].        *)
(***************************************************************************)
EXTENDS Integers, Sequences, FiniteSets

\* ------------------------------------------------------------------ bounds
NumReq == 2
MaxDepth == 2
MaxUuid == 2
MaxExtract == 2

\* ------------------------------------------------------- Option and Result
None == << >>
Some(x) == << x >>
IsSome(o) == Len(o) = 1
Unwrap(o) == o[1]

Ok(x) == [ok |-> TRUE, val |-> x]
Err(e) == [ok |-> FALSE, val |-> e]

\* ------------------------------------------------------------ byte strings
\* "unavailable"
Unavailable == << 117, 110, 97, 118, 97, 105, 108, 97, 98, 108, 101 >>
\* "mock_id"
MockIdText == << 109, 111, 99, 107, 95, 105, 100 >>
\* "TraceId="
TraceIdPrefix == << 84, 114, 97, 99, 101, 73, 100, 61 >>
\* "x-t", a header name in its normal form, and "x-o", a header the
\* interceptor is never configured with
XT == << 120, 45, 116 >>
XO == << 120, 45, 111 >>
\* header names as given to with_header_name: "X-T", "x-t", "x t"
RawNames == { << 88, 45, 84 >>, << 120, 45, 116 >>, << 120, 32, 116 >> }
\* values an incoming request or an inner response may already carry:
\* "old", "o2", "up"
StaleA == << 111, 108, 100 >>
StaleB == << 111, 50 >>
UpText == << 117, 112 >>

MISSING_TRACE_ID_ERROR == "Unable to extract TraceId: Missing TraceId extension."
INTERNAL_SERVER_ERROR == 500

\* ------------------------------------------------ HeaderName / HeaderValue
IsTokenByte(b) ==
    \/ b \in 48..57
    \/ b \in 65..90
    \/ b \in 97..122
    \/ b \in { 33, 35, 36, 37, 38, 39, 42, 43, 45, 46, 94, 95, 96, 124, 126 }

LowerByte(b) == IF b \in 65..90 THEN b + 32 ELSE b

\* HeaderName::from_str: Err on an empty name or a byte that is no token
\* character, otherwise the name in lower case.
HeaderNameFromStr(s) ==
    IF Len(s) = 0 \/ \E i \in 1..Len(s) : ~IsTokenByte(s[i])
    THEN Err("InvalidHeaderName")
    ELSE Ok([i \in 1..Len(s) |-> LowerByte(s[i])])

\* HeaderValue::try_from(String): Err when a byte is a control character
\* other than tab, otherwise a value holding the same bytes.
IsValidHeaderByte(b) == (b >= 32 /\ b # 127) \/ b = 9

HeaderValueTryFrom(s) ==
    IF \E i \in 1..Len(s) : ~IsValidHeaderByte(s[i])
    THEN Err("InvalidHeaderValue")
    ELSE Ok(s)

UnwrapOr(res, dflt) == IF res.ok THEN res.val ELSE dflt

\* HeaderMap: every name maps to the sequence of its values (empty: absent).
AllHeaderNames == { XT, XO }
EmptyHeaders == [n \in AllHeaderNames |-> << >>]

\* HeaderMap::insert: the value replaces all values the name had.
HeaderInsert(h, name, val) == [h EXCEPT ![name] = << val >>]

\* ------------------------------------------------------------- Extensions
\* Request extensions: a set of entries [type, value], looked up by type.
ExtGet(ext, T) ==
    IF \E e \in ext : e.type = T
    THEN Some((CHOOSE e \in ext : e.type = T).value)
    ELSE None

\* Extensions::insert: replaces the entry of the same type.
ExtInsert(ext, T, v) ==
    { e \in ext : e.type # T } \cup { [type |-> T, value |-> v] }

\* ------------------------------------------------- MakeTraceId and TraceId
\* The identifier types: String (lib.rs), MockTraceId (a constant id) and
\* LineTraceId, a custom type whose rendering holds a line feed.
Types == { "String", "MockTraceId", "LineTraceId" }

HexDigit(n) == IF n < 10 THEN 48 + n ELSE 87 + n

\* Uuid::to_string on the Uuid with number u: lower-case hexadecimal digits.
UuidToString(u) == << HexDigit((u \div 16) % 16), HexDigit(u % 16) >>

\* T::make_trace_id(): the values one call may return.
MakeTraceId(T) ==
    CASE T = "String" -> { UuidToString(u) : u \in 0..(MaxUuid - 1) }
      [] T = "MockTraceId" -> { MockIdText }
      [] T = "LineTraceId" -> { 7 }

\* Display of T.
Display(T, id) ==
    CASE T = "String" -> id
      [] T = "MockTraceId" -> id
      [] T = "LineTraceId" -> << 76, 10, 48 + id >>

\* TraceId::<T>::new()
TraceIdNew(T) == { [id |-> x] : x \in MakeTraceId(T) }

\* Display of TraceId<T>
TraceIdToString(T, tid) == Display(T, tid.id)

\* ------------------------------------------------------- SetTraceIdLayer
\* SetTraceIdLayer::<T>::new()
LayerNew(T) == [T |-> T, header_name |-> None]

\* with_header_name: from_str(..).unwrap() panics on an invalid name, so
\* the operator is applied to valid names only.
WithHeaderName(layer, raw) ==
    [T |-> layer.T, header_name |-> Some(HeaderNameFromStr(raw).val)]

\* Layer::layer: the middleware carries a clone of the header name.
LayerLayer(layer) == [T |-> layer.T, header_name |-> layer.header_name]

\* The middlewares that can be constructed.
Middlewares ==
    { LayerLayer(LayerNew(T)) : T \in Types }
    \cup { LayerLayer(WithHeaderName(LayerNew(T), raw)) :
             T \in Types, raw \in { n \in RawNames : HeaderNameFromStr(n).ok } }

\* Stacks of middlewares, outermost first.
Stacks == UNION { [1..n -> Middlewares] : n \in 0..MaxDepth }

\* ------------------------------------------------------------------ inputs
\* A TraceId<T> an upstream stage may have put into the extensions.
Upstream(T) ==
    CASE T = "String" -> [id |-> UpText]
      [] T = "MockTraceId" -> [id |-> UpText]
      [] T = "LineTraceId" -> [id |-> 3]

HeaderInputs ==
    { EmptyHeaders,
      [EmptyHeaders EXCEPT ![XT] = << StaleA, StaleB >>, ![XO] = << StaleB >>] }

ExtInputs ==
    { {},
      { [type |-> T, value |-> Upstream(T)] : T \in Types } }

Requests == [headers : HeaderInputs, extensions : ExtInputs]

ResponseHeaderInputs ==
    { EmptyHeaders,
      [EmptyHeaders EXCEPT ![XT] = << StaleA >>, ![XO] = << StaleB >>] }

Errors == { "E1", "E2" }

VARIABLES
    stack,      \* the installed middlewares, outermost first
    handlerT,   \* the type the handler extracts: TraceId<handlerT>
    req,        \* req[r]: the request as it travels down the stack
    pc,         \* pc[r]: the position of request r
    lvl,        \* lvl[r]: the middleware whose code runs for r
    frames,     \* frames[r][k]: the locals of middleware k's call for r
    extracted,  \* extracted[r]: the results of the handler's extractions
    result,     \* result[r]: what the stage below lvl[r] returned
    log         \* log[r]: the events of r, in order

vars == << stack, handlerT, req, pc, lvl, frames, extracted, result, log >>

Depth == Len(stack)
Reqs == DOMAIN pc

\* ------------------------------------------------------------------- Init
InitWith(rs, stacks, handlers, inputs) ==
    /\ stack \in stacks
    /\ handlerT \in handlers
    /\ req \in [rs -> inputs]
    /\ pc = [r \in rs |-> "idle"]
    /\ lvl = [r \in rs |-> 0]
    /\ frames = [r \in rs |-> << >>]
    /\ extracted = [r \in rs |-> << >>]
    /\ result = [r \in rs |-> None]
    /\ log = [r \in rs |-> << >>]

Init == InitWith({ 1 }, Stacks, Types, Requests)

\* Several requests in flight through one String middleware, with and
\* without a header name.
ConcStacks ==
    { << LayerLayer(LayerNew("String")) >>,
      << LayerLayer(WithHeaderName(LayerNew("String"), XT)) >> }

ConcRequests ==
    { [headers |-> [EmptyHeaders EXCEPT ![XT] = << StaleA >>],
       extensions |-> { [type |-> "String", value |-> Upstream("String")] }] }

InitConc == InitWith(1..NumReq, ConcStacks, { "String" }, ConcRequests)

\* ---------------------------------------------------------------- actions
Event(kind, k) == << kind, k >>

\* The request enters the outermost stage: the first middleware, or the
\* handler when no middleware is installed.
Arrive(r) ==
    /\ pc[r] = "idle"
    /\ pc' = [pc EXCEPT ![r] = IF Depth = 0 THEN "handler" ELSE "new"]
    /\ lvl' = [lvl EXCEPT ![r] = IF Depth = 0 THEN 0 ELSE 1]
    /\ UNCHANGED << stack, handlerT, req, frames, extracted, result, log >>

\* A variant of PcAfter: the request header is written before the
\* extension is inserted.
PcAfterHeaderFirst(p) ==
    CASE p = "new" -> "header"
      [] p = "header" -> "insert"
      [] p = "insert" -> "invoke"

\* The straight-line order of call's statements up to the inner call.
PcAfter(p) ==
    CASE p = "new" -> "insert"
      [] p = "insert" -> "header"
      [] p = "header" -> "invoke"

\* call, line 102: let trace_id = TraceId::<T>::new();
NewTraceId(r) ==
    /\ pc[r] = "new"
    /\ \E tid \in TraceIdNew(stack[lvl[r]].T) :
         frames' = [frames EXCEPT ![r] = Append(@,
                      [trace_id |-> tid, header_val |-> None,
                       in_req |-> req[r], inner_req |-> None,
                       inner_res |-> None, ret |-> None])]
    /\ log' = [log EXCEPT ![r] = Append(@, Event("generate", lvl[r]))]
    /\ pc' = [pc EXCEPT ![r] = PcAfter("new")]
    /\ UNCHANGED << stack, handlerT, req, lvl, extracted, result >>

\* A variant of ExtensionsAfterInsert: the insertion is left out.
ExtensionsNotInserted(ext, T, tid) == ext

\* A variant of ExtensionsAfterInsert: an entry already present is kept.
ExtensionsKeepExisting(ext, T, tid) ==
    IF \E e \in ext : e.type = T THEN ext ELSE ExtInsert(ext, T, tid)

\* The extensions after line 103.
ExtensionsAfterInsert(ext, T, tid) == ExtInsert(ext, T, tid)

\* call, line 103: req.extensions_mut().insert(trace_id.clone());
InsertExtension(r) ==
    /\ pc[r] = "insert"
    /\ req' = [req EXCEPT ![r].extensions =
                 ExtensionsAfterInsert(@, stack[lvl[r]].T, frames[r][lvl[r]].trace_id)]
    /\ log' = [log EXCEPT ![r] = Append(@, Event("ctx_insert", lvl[r]))]
    /\ pc' = [pc EXCEPT ![r] = PcAfter("insert")]
    /\ UNCHANGED << stack, handlerT, lvl, frames, extracted, result >>

\* header_val of lines 106-111.
HeaderValOf(mw, tid) ==
    IF IsSome(mw.header_name)
    THEN Some(UnwrapOr(HeaderValueTryFrom(Display(mw.T, tid.id)), Unavailable))
    ELSE None

\* A variant of RequestHeadersAfter: without a configured name the header
\* is written under a default name.
RequestHeadersDefaultName(h, mw, hv) ==
    IF IsSome(mw.header_name)
    THEN HeaderInsert(h, Unwrap(mw.header_name), Unwrap(hv))
    ELSE HeaderInsert(h, XT, Unavailable)

\* The request headers after lines 107-114.
RequestHeadersAfter(h, mw, hv) ==
    IF IsSome(mw.header_name)
    THEN HeaderInsert(h, Unwrap(mw.header_name), Unwrap(hv))
    ELSE h

\* call, lines 105-114: the header value and the request header.
SetRequestHeader(r) ==
    LET k == lvl[r]
        hv == HeaderValOf(stack[k], frames[r][k].trace_id)
    IN /\ pc[r] = "header"
       /\ frames' = [frames EXCEPT ![r][k].header_val = hv]
       /\ req' = [req EXCEPT ![r].headers = RequestHeadersAfter(@, stack[k], hv)]
       /\ log' = [log EXCEPT ![r] =
                    IF IsSome(stack[k].header_name)
                    THEN Append(@, Event("req_header", k))
                    ELSE @]
       /\ pc' = [pc EXCEPT ![r] = PcAfter("header")]
       /\ UNCHANGED << stack, handlerT, lvl, extracted, result >>

\* call, lines 116-117: self.inner.call(req); the inner stage is the next
\* middleware, or the handler below the innermost one.
CallInner(r) ==
    LET k == lvl[r]
    IN /\ pc[r] = "invoke"
       /\ frames' = [frames EXCEPT ![r][k].inner_req = Some(req[r])]
       /\ log' = [log EXCEPT ![r] = Append(@, Event("invoke_inner", k))]
       /\ IF k < Depth
          THEN /\ lvl' = [lvl EXCEPT ![r] = k + 1]
               /\ pc' = [pc EXCEPT ![r] = "new"]
          ELSE /\ lvl' = lvl
               /\ pc' = [pc EXCEPT ![r] = "handler"]
       /\ UNCHANGED << stack, handlerT, req, extracted, result >>

\* A variant of FromRequestParts: a missing entry is replaced by a new id.
FromRequestPartsOrDefault(ext, T) ==
    LET found == ExtGet(ext, T)
    IN [result |-> IF IsSome(found)
                   THEN Ok(Unwrap(found))
                   ELSE Ok(CHOOSE t \in TraceIdNew(T) : TRUE),
        extensions |-> ext]

\* A variant of FromRequestParts: the entry is taken out of the extensions.
FromRequestPartsRemoving(ext, T) ==
    LET found == ExtGet(ext, T)
    IN [result |-> IF IsSome(found) THEN Ok(Unwrap(found)) ELSE Err("MissingTraceId"),
        extensions |-> { e \in ext : e.type # T }]

\* from_request_parts, lines 33-38: the result and the extensions it leaves.
FromRequestParts(ext, T) ==
    LET found == ExtGet(ext, T)
    IN [result |-> IF IsSome(found) THEN Ok(Unwrap(found)) ELSE Err("MissingTraceId"),
        extensions |-> ext]

\* TraceIdRejection::into_response, lines 15-23
IntoResponse(rej) ==
    [status |-> INTERNAL_SERVER_ERROR,
     headers |-> EmptyHeaders,
     body |-> MISSING_TRACE_ID_ERROR]

\* The stage below the innermost middleware has finished with res.
Completed(r, res) ==
    /\ result' = [result EXCEPT ![r] = Some(res)]
    /\ pc' = [pc EXCEPT ![r] = IF lvl[r] = 0 THEN "done" ELSE "await"]
    /\ log' = [log EXCEPT ![r] = Append(@, Event("handler_done", lvl[r] + 1))]

\* The handler's argument TraceId<handlerT> is extracted; a rejection is
\* turned into the response and the handler's body does not run.
Extract(r) ==
    LET got == FromRequestParts(req[r].extensions, handlerT)
    IN /\ pc[r] = "handler"
       /\ Len(extracted[r]) < MaxExtract
       /\ extracted' = [extracted EXCEPT ![r] = Append(@, got.result)]
       /\ req' = [req EXCEPT ![r].extensions = got.extensions]
       /\ IF got.result.ok
          THEN UNCHANGED << pc, result, log >>
          ELSE Completed(r, Ok(IntoResponse(got.result.val)))
       /\ UNCHANGED << stack, handlerT, lvl, frames >>

\* The handler of the tests: format!("TraceId={trace_id}"), status 200; the
\* response may carry headers of its own.
HandlerRespond(r) ==
    /\ pc[r] = "handler"
    /\ Len(extracted[r]) >= 1
    /\ \E h \in ResponseHeaderInputs :
         Completed(r, Ok([status |-> 200,
                          headers |-> h,
                          body |-> TraceIdPrefix \o
                                     TraceIdToString(handlerT, extracted[r][1].val)]))
    /\ UNCHANGED << stack, handlerT, req, lvl, frames, extracted >>

\* The inner stage fails with an error of its own.
InnerFail(r) ==
    /\ pc[r] = "handler"
    /\ extracted[r] = << >>
    /\ \E e \in Errors : Completed(r, Err(e))
    /\ UNCHANGED << stack, handlerT, req, lvl, frames, extracted >>

\* A variant of MovedHeaderVal: the header value is kept in a place all
\* calls share, so the future reads the value of another call.
SharedHeaderVal(r, k) ==
    IF \E q \in Reqs \ { r } : k \in DOMAIN frames[q] /\ IsSome(frames[q][k].header_val)
    THEN frames[CHOOSE q \in Reqs \ { r } :
                   k \in DOMAIN frames[q] /\ IsSome(frames[q][k].header_val)][k].header_val
    ELSE frames[r][k].header_val

\* The header value the future writes: header_val, moved into the async
\* block at line 118.
MovedHeaderVal(r, k) == frames[r][k].header_val

\* A variant of ResponseHeadersAfter: the value is appended to those the
\* response has.
ResponseHeadersAppended(h, mw, hv) ==
    IF IsSome(mw.header_name)
    THEN [h EXCEPT ![Unwrap(mw.header_name)] = Append(@, Unwrap(hv))]
    ELSE h

\* A variant of ResponseHeadersAfter: a value the response has is kept.
ResponseHeadersKeepExisting(h, mw, hv) ==
    IF IsSome(mw.header_name) /\ h[Unwrap(mw.header_name)] = << >>
    THEN HeaderInsert(h, Unwrap(mw.header_name), Unwrap(hv))
    ELSE h

\* The response headers after lines 122-126.
ResponseHeadersAfter(h, mw, hv) ==
    IF IsSome(mw.header_name)
    THEN HeaderInsert(h, Unwrap(mw.header_name), Unwrap(hv))
    ELSE h

\* A variant of FutureOutput: an inner error becomes a 500 response.
FutureOutputSuppressing(res, mw, hv) ==
    IF res.ok
    THEN Ok([res.val EXCEPT !.headers = ResponseHeadersAfter(@, mw, hv)])
    ELSE Ok([status |-> INTERNAL_SERVER_ERROR,
             headers |-> EmptyHeaders,
             body |-> MISSING_TRACE_ID_ERROR])

\* What the future returns for the inner result res, lines 119-128.
FutureOutput(res, mw, hv) ==
    IF res.ok
    THEN Ok([res.val EXCEPT !.headers = ResponseHeadersAfter(@, mw, hv)])
    ELSE res

\* call, lines 118-129: the future resumes once the inner future is done.
Resume(r) ==
    LET k == lvl[r]
        res == Unwrap(result[r])
        out == FutureOutput(res, stack[k], MovedHeaderVal(r, k))
    IN /\ pc[r] = "await"
       /\ frames' = [frames EXCEPT ![r][k].inner_res = Some(res),
                                   ![r][k].ret = Some(out)]
       /\ result' = [result EXCEPT ![r] = Some(out)]
       /\ log' = [log EXCEPT ![r] =
                    @ \o << Event("inner_done", k) >>
                      \o (IF res.ok /\ IsSome(stack[k].header_name)
                          THEN << Event("resp_header", k) >>
                          ELSE << >>)
                      \o << Event("return", k) >>]
       /\ lvl' = [lvl EXCEPT ![r] = k - 1]
       /\ pc' = [pc EXCEPT ![r] = IF k = 1 THEN "done" ELSE "await"]
       /\ UNCHANGED << stack, handlerT, req, extracted >>

Next ==
    \/ \E r \in Reqs : Arrive(r)
    \/ \E r \in Reqs : NewTraceId(r)
    \/ \E r \in Reqs : InsertExtension(r)
    \/ \E r \in Reqs : SetRequestHeader(r)
    \/ \E r \in Reqs : CallInner(r)
    \/ \E r \in Reqs : Extract(r)
    \/ \E r \in Reqs : HandlerRespond(r)
    \/ \E r \in Reqs : InnerFail(r)
    \/ \E r \in Reqs : Resume(r)

Spec == Init /\ [][Next]_vars

SpecConc == InitConc /\ [][Next]_vars

\* ----------------------------------------------------------------- claims
EntriesOf(ext, T) == { e \in ext : e.type = T }

\* The call of middleware k for request r has invoked its inner stage.
Invoked(r, k) == k \in DOMAIN frames[r] /\ IsSome(frames[r][k].inner_req)

\* The future of middleware k for request r has returned.
Returned(r, k) == k \in DOMAIN frames[r] /\ IsSome(frames[r][k].ret)

\* The header value the claims expect for an id: its rendering, or the
\* literal "unavailable" when the rendering holds a control byte.
ExpectedHeaderValue(T, tid) ==
    LET s == TraceIdToString(T, tid)
    IN IF \E i \in 1..Len(s) : (s[i] < 32 /\ s[i] # 9) \/ s[i] = 127
       THEN << 117, 110, 97, 118, 97, 105, 108, 97, 98, 108, 101 >>
       ELSE s

\* The request has reached the handler (or is past it).
AtHandler(r) == pc[r] \in { "handler", "await", "done" }

\* C1: whenever a middleware invokes its inner stage, the request it
\* passes holds exactly one TraceId<T> entry for the middleware's type T,
\* with or without a configured header name.
C1_ExactlyOneEntry ==
    \A r \in Reqs : \A k \in DOMAIN frames[r] :
        Invoked(r, k) =>
            Cardinality(EntriesOf(Unwrap(frames[r][k].inner_req).extensions,
                                  stack[k].T)) = 1

C1_Witness ==
    \E r \in Reqs :
        /\ Depth = 2
        /\ stack[1].header_name = None
        /\ IsSome(stack[2].header_name)
        /\ Invoked(r, 1) /\ Invoked(r, 2)
        /\ EntriesOf(frames[r][1].in_req.extensions, stack[1].T) = {}
        /\ EntriesOf(frames[r][2].in_req.extensions, stack[2].T) # {}

\* C2: extracting TraceId<handlerT> from a request whose extensions hold
\* no entry of that type fails with MissingTraceId, and the response is
\* status 500 with the fixed body; no id is made up.
C2_MissingTraceId ==
    \A r \in Reqs :
        ( /\ AtHandler(r)
          /\ extracted[r] # << >>
          /\ EntriesOf(req[r].extensions, handlerT) = {} )
        => /\ Len(extracted[r]) = 1
           /\ ~extracted[r][1].ok
           /\ extracted[r][1].val = "MissingTraceId"
           /\ IsSome(result[r])
           /\ Unwrap(result[r]).ok
           /\ Unwrap(result[r]).val.status = 500
           /\ Unwrap(result[r]).val.body =
                "Unable to extract TraceId: Missing TraceId extension."

C2_Witness ==
    \E r \in Reqs :
        /\ Depth = 1
        /\ stack[1].T # handlerT
        /\ IsSome(stack[1].header_name)
        /\ pc[r] = "done"
        /\ extracted[r] # << >>
        /\ EntriesOf(req[r].extensions, handlerT) = {}
        /\ Unwrap(result[r]).val.status = 500

\* C3: with a header name configured and a successful inner stage, the
\* request passed to the inner stage and the response returned carry the
\* same single value under that name: the rendered id of this call, or
\* "unavailable" when the rendering is no valid header value; whatever the
\* incoming request or the inner response carried under the name.
C3_HeaderRoundTrip ==
    \A r \in Reqs : \A k \in DOMAIN frames[r] :
        ( /\ IsSome(stack[k].header_name)
          /\ Returned(r, k)
          /\ Unwrap(frames[r][k].inner_res).ok )
        => LET name == Unwrap(stack[k].header_name)
               v == ExpectedHeaderValue(stack[k].T, frames[r][k].trace_id)
           IN /\ Unwrap(frames[r][k].inner_req).headers[name] = << v >>
              /\ Unwrap(frames[r][k].ret).ok
              /\ Unwrap(frames[r][k].ret).val.headers[name] = << v >>

C3_Witness ==
    \E r \in Reqs :
        /\ Depth = 1
        /\ stack[1].T = "LineTraceId"
        /\ IsSome(stack[1].header_name)
        /\ Returned(r, 1)
        /\ Unwrap(frames[r][1].inner_res).ok
        /\ frames[r][1].in_req.headers[XT] = << StaleA, StaleB >>
        /\ Unwrap(frames[r][1].inner_res).val.headers[XT] = << StaleA >>
        /\ Unwrap(frames[r][1].ret).val.headers[XT] = << Unavailable >>

\* C4: with no header name configured, the headers of the request passed
\* to the inner stage are those the middleware received, the headers of the
\* response it returns are those the inner stage returned, and the
\* TraceId<T> entry is still inserted.
C4_NoHeaderConfigured ==
    \A r \in Reqs : \A k \in DOMAIN frames[r] :
        stack[k].header_name = None =>
            /\ Invoked(r, k) =>
                 /\ Unwrap(frames[r][k].inner_req).headers =
                      frames[r][k].in_req.headers
                 /\ [type |-> stack[k].T, value |-> frames[r][k].trace_id]
                      \in Unwrap(frames[r][k].inner_req).extensions
            /\ (Returned(r, k) /\ Unwrap(frames[r][k].inner_res).ok) =>
                 /\ Unwrap(frames[r][k].ret).ok
                 /\ Unwrap(frames[r][k].ret).val.headers =
                      Unwrap(frames[r][k].inner_res).val.headers

C4_Witness ==
    \E r \in Reqs :
        /\ Depth = 1
        /\ stack[1].header_name = None
        /\ Returned(r, 1)
        /\ Unwrap(frames[r][1].inner_res).ok
        /\ Unwrap(frames[r][1].inner_res).val.status = 200
        /\ frames[r][1].in_req.headers[XT] = << >>
        /\ Unwrap(frames[r][1].ret).val.headers[XT] = << >>

\* The innermost middleware for type T.
InnermostFor(T) ==
    CHOOSE k \in 1..Depth :
        /\ stack[k].T = T
        /\ \A j \in (k + 1)..Depth : stack[j].T # T

\* C5: when a middleware for handlerT ran upstream, every extraction in
\* the handler succeeds with the id that middleware generated for this
\* request, the handler's body is "TraceId=" followed by its rendering,
\* and the extensions stay as the handler received them.
C5_ExtractReturnsGenerated ==
    \A r \in Reqs :
        ( /\ AtHandler(r)
          /\ \E k \in 1..Depth : stack[k].T = handlerT )
        => LET tid == frames[r][InnermostFor(handlerT)].trace_id
           IN /\ \A i \in DOMAIN extracted[r] :
                    extracted[r][i].ok /\ extracted[r][i].val = tid
              /\ req[r].extensions =
                    Unwrap(frames[r][Depth].inner_req).extensions
              /\ ( /\ IsSome(result[r])
                   /\ Unwrap(result[r]).ok
                   /\ Unwrap(result[r]).val.status = 200 )
                 => Unwrap(result[r]).val.body =
                        TraceIdPrefix \o TraceIdToString(handlerT, tid)

C5_Witness ==
    \E r \in Reqs :
        /\ Depth = 1
        /\ stack[1].T = "MockTraceId"
        /\ handlerT = "MockTraceId"
        /\ pc[r] = "done"
        /\ Len(extracted[r]) >= 2
        /\ Unwrap(result[r]).ok
        /\ Unwrap(result[r]).val.body =
             << 84, 114, 97, 99, 101, 73, 100, 61,
                109, 111, 99, 107, 95, 105, 100 >>

\* C6: when the inner stage returns an error, the middleware's future
\* returns that same error and writes no response header, with or without
\* a configured header name.
C6_ErrorPassedThrough ==
    \A r \in Reqs : \A k \in DOMAIN frames[r] :
        (Returned(r, k) /\ ~Unwrap(frames[r][k].inner_res).ok)
        => /\ ~Unwrap(frames[r][k].ret).ok
           /\ Unwrap(frames[r][k].ret).val = Unwrap(frames[r][k].inner_res).val
           /\ \A i \in DOMAIN log[r] : log[r][i] # Event("resp_header", k)
           /\ (k = 1 /\ pc[r] = "done") =>
                 Unwrap(result[r]) = Unwrap(frames[r][Depth].inner_res)

C6_Witness ==
    \E r \in Reqs :
        /\ Depth = 2
        /\ IsSome(stack[1].header_name)
        /\ stack[2].header_name = None
        /\ pc[r] = "done"
        /\ ~Unwrap(result[r]).ok
        /\ Unwrap(result[r]).val = "E2"

\* The events of middleware k in the log of r, in order.
EventsOf(r, k) ==
    LET at == SelectSeq(log[r], LAMBDA e : e[2] = k)
    IN [i \in DOMAIN at |-> at[i][1]]

\* The events of one call of middleware k, in the order the claim gives.
CallOrder(r, k) ==
    << "generate", "ctx_insert" >>
    \o (IF IsSome(stack[k].header_name) THEN << "req_header" >> ELSE << >>)
    \o << "invoke_inner", "inner_done" >>
    \o (IF /\ IsSome(stack[k].header_name)
           /\ Returned(r, k)
           /\ Unwrap(frames[r][k].inner_res).ok
        THEN << "resp_header" >>
        ELSE << >>)
    \o << "return" >>

IsPrefix(a, b) == Len(a) <= Len(b) /\ \A i \in DOMAIN a : a[i] = b[i]

\* C7: within one request, the events of each middleware are a prefix of
\* generate, context insertion, request-header write (if configured),
\* inner invocation, inner completion, response-header write (if
\* configured and the inner stage succeeded), return; everything the inner
\* stage does lies after the invocation and before the completion.
C7_EventOrder ==
    \A r \in Reqs : \A k \in 1..Depth :
        /\ IsPrefix(EventsOf(r, k), CallOrder(r, k))
        /\ \A p \in DOMAIN log[r] :
              log[r][p][2] > k =>
                 /\ \E q \in 1..(p - 1) : log[r][q] = Event("invoke_inner", k)
                 /\ \A q \in 1..(p - 1) : log[r][q] # Event("inner_done", k)

C7_Witness ==
    \E r \in Reqs :
        /\ Depth = 2
        /\ IsSome(stack[1].header_name)
        /\ IsSome(stack[2].header_name)
        /\ pc[r] = "done"
        /\ Unwrap(result[r]).ok
        /\ Len(log[r]) = 15

\* C8: when the incoming request already holds a TraceId<T> entry, the
\* entry the inner stage sees is the id generated by this call and not the
\* upstream value.
C8_Overwrites ==
    \A r \in Reqs : \A k \in DOMAIN frames[r] :
        ( /\ Invoked(r, k)
          /\ EntriesOf(frames[r][k].in_req.extensions, stack[k].T) # {} )
        => /\ ExtGet(Unwrap(frames[r][k].inner_req).extensions, stack[k].T)
                = Some(frames[r][k].trace_id)
           /\ frames[r][k].trace_id \in TraceIdNew(stack[k].T)
           /\ \A e \in EntriesOf(Unwrap(frames[r][k].inner_req).extensions,
                                 stack[k].T) :
                 e.value # Upstream(stack[k].T)

C8_Witness ==
    \E r \in Reqs :
        /\ Depth = 1
        /\ Invoked(r, 1)
        /\ ExtGet(frames[r][1].in_req.extensions, stack[1].T)
             = Some(Upstream(stack[1].T))
        /\ ExtGet(req[r].extensions, stack[1].T) = Some(frames[r][1].trace_id)

\* Every request carries the id generated for it: its extension entry,
\* its request header and its response header.
OwnIdEverywhere ==
    \A r \in Reqs : \A k \in DOMAIN frames[r] :
        LET f == frames[r][k]
            v == ExpectedHeaderValue(stack[k].T, f.trace_id)
        IN /\ Invoked(r, k) =>
                /\ ExtGet(Unwrap(f.inner_req).extensions, stack[k].T)
                     = Some(f.trace_id)
                /\ IsSome(stack[k].header_name) =>
                     Unwrap(f.inner_req).headers[Unwrap(stack[k].header_name)]
                        = << v >>
           /\ ( /\ Returned(r, k)
                /\ Unwrap(f.ret).ok
                /\ IsSome(stack[k].header_name) )
              => Unwrap(f.ret).val.headers[Unwrap(stack[k].header_name)] = << v >>

\* C9: in every interleaving of several requests through one middleware,
\* each request's extension entry, request header and response header
\* carry the id generated for that request, and no step changes the
\* configured header name.
C9_NoCrossTalk == [](OwnIdEverywhere) /\ [][stack' = stack]_vars

C9_Witness ==
    \E r, q \in Reqs :
        /\ r # q
        /\ IsSome(stack[1].header_name)
        /\ pc[r] = "await" /\ pc[q] = "await"
        /\ Returned(r, 1) = FALSE /\ Returned(q, 1) = FALSE
        /\ Unwrap(result[r]).ok
        /\ frames[r][1].trace_id # frames[q][1].trace_id

\* C10: with the outermost and the innermost middleware for the same type
\* and the same header name, the handler sees the innermost one's id in
\* the extensions and in the request header, and the response returned to
\* the caller carries the outermost one's header value.
C10_Stacked ==
    \A r \in Reqs :
        ( /\ Depth >= 2
          /\ stack[1].T = stack[Depth].T
          /\ IsSome(stack[1].header_name)
          /\ stack[1].header_name = stack[Depth].header_name
          /\ AtHandler(r) )
        => LET T == stack[1].T
               name == Unwrap(stack[1].header_name)
           IN /\ ExtGet(req[r].extensions, T) = Some(frames[r][Depth].trace_id)
              /\ req[r].headers[name] =
                   << ExpectedHeaderValue(T, frames[r][Depth].trace_id) >>
              /\ (handlerT = T) =>
                   \A i \in DOMAIN extracted[r] :
                      extracted[r][i].ok
                      /\ extracted[r][i].val = frames[r][Depth].trace_id
              /\ (pc[r] = "done" /\ Unwrap(result[r]).ok) =>
                   Unwrap(result[r]).val.headers[name] =
                      << ExpectedHeaderValue(T, frames[r][1].trace_id) >>

C10_Witness ==
    \E r \in Reqs :
        /\ Depth = 2
        /\ stack[1].T = "String" /\ stack[2].T = "String"
        /\ handlerT = "String"
        /\ stack[1].header_name = Some(XT)
        /\ stack[2].header_name = Some(XT)
        /\ pc[r] = "done"
        /\ Unwrap(result[r]).ok
        /\ Unwrap(result[r]).val.status = 200
        /\ frames[r][1].trace_id # frames[r][2].trace_id
        /\ extracted[r][1].val = frames[r][2].trace_id
        /\ Unwrap(result[r]).val.headers[XT] = << frames[r][1].trace_id.id >>

====
